---- MODULE Spec2Model ----
(***************************************************************************)
(* Board-game tracker (Catan page) and its statistics module.              *)
(*                                                                         *)
(* Spec      : the Streamlit page games/catan_app.py as a state machine    *)
(*             over the stored records (Player, Game, GamePlayer, Roll,    *)
(*             FinalScore) and the session keys; the statistics of         *)
(*             utils_stats.py are operators over that state.               *)
(* SpecStats : the pure functions of utils_stats.py applied to inputs      *)
(*             drawn from bounded sets; the last call is kept in `call`.   *)
(*                                                                         *)
(* Conventions.  Record ids (uuid4 strings in the code) are numbered in    *)
(* creation order.  A player's name is not modelled: the id stands for it. *)
(* Dice sets and page navigation (st.session_state.catan_nav) are not      *)
(* modelled: the radio is always available, so every handler is enabled    *)
(* whatever page was shown before.  Python floats are modelled as exact    *)
(* rationals <<num, den>> in lowest terms.                                 *)
(***************************************************************************)
EXTENDS Integers, Sequences, FiniteSets, TLC

VARIABLES
    players,                \* Player rows: the ids, in creation order
    games,                  \* Game rows: [id, ended]
    game_players,           \* GamePlayer rows, in insertion order
    rolls,                  \* Roll rows, in insertion order
    final_scores,           \* FinalScore rows, in insertion order
    catan_active_game_id,   \* st.session_state.catan_active_game_id
    catan_turn_idx,         \* st.session_state.catan_turn_idx
    catan_roll_counter,     \* st.session_state.catan_roll_counter
    call                    \* SpecStats: the last call of a pure function

db_vars == <<players, games, game_players, rolls, final_scores>>
session_vars == <<catan_active_game_id, catan_turn_idx, catan_roll_counter>>
vars == <<players, games, game_players, rolls, final_scores,
          catan_active_game_id, catan_turn_idx, catan_roll_counter, call>>

----------------------------------------------------------------------------
(* Bounds of the exploration *)

MaxPlayers == 2     \* Player rows created
MaxGames == 2       \* Game rows created
MaxRolls == 3       \* Roll rows created
NumButtons == 2     \* how many of the 11 roll buttons are pressed in a run
MaxScore == 0       \* largest final score entered (the form allows 0..100)
MaxRows == 2        \* SpecStats: rows of a count table given to the GOF test
MaxCount == 2       \* SpecStats: largest count in such a row
MaxNeg == 1         \* SpecStats: counts go down to -MaxNeg
MaxMult == 5        \* SpecStats: count tables m * weights, m in 1..MaxMult
MaxN == 40          \* SpecStats: expected_2d6_df(N) for N in -MaxN..MaxN
MaxTableRows == 2   \* SpecStats: rows of a contingency table
MaxCell == 1        \* SpecStats: largest cell of a contingency table
MaxDf == 2          \* SpecStats: _chi2_sf(x, df) for df in -MaxDf..MaxDf
MaxShape == 3       \* SpecStats: cramers_v(chi2, n, r, c) for r, c in 0..MaxShape
MaxTrials == 10     \* SpecStats: binom_two_sided_pvalue(k, n, p) for n in 0..MaxTrials
MaxDen == 3         \* SpecStats: p near i / den for den in 1..MaxDen

(* Program constants *)

NoGame == 0         \* None in catan_active_game_id
MinTotal == 2
MaxTotal == 12

Totals == MinTotal..MaxTotal

\* The roll buttons in the order the exploration presses them (both ends of
\* the range and its middle first).
ButtonOrder == <<2, 7, 12, 3, 11, 6, 8, 4, 10, 5, 9>>

Max(a, b) == IF a > b THEN a ELSE b

Buttons == {ButtonOrder[i] : i \in {k \in DOMAIN ButtonOrder : k <= NumButtons}}

----------------------------------------------------------------------------
(* Sequences *)

Range(s) == {s[i] : i \in DOMAIN s}

RECURSIVE SumSeq(_)
SumSeq(s) == IF s = <<>> THEN 0 ELSE Head(s) + SumSeq(Tail(s))

\* The sequences without repetition over a set.
RECURSIVE Perms(_)
Perms(S) ==
    IF S = {} THEN {<<>>}
    ELSE UNION {{<<x>> \o p : p \in Perms(S \ {x})} : x \in S}

\* A list of GamePlayer rows in ascending turn_order.
IsByTurnOrder(gps) == \A i \in 1..(Len(gps) - 1) : gps[i].turn_order <= gps[i + 1].turn_order

----------------------------------------------------------------------------
(* Python floats as exact rationals <<num, den>>, den > 0, in lowest terms *)

Abs(a) == IF a < 0 THEN -a ELSE a

RECURSIVE Gcd(_, _)
Gcd(a, b) == IF b = 0 THEN a ELSE Gcd(b, a % b)

Rat(num, den) ==
    LET g == Gcd(Abs(num), Abs(den))
        sgn == IF den < 0 THEN -1 ELSE 1
    IN  <<sgn * (num \div g), sgn * (den \div g)>>

Zero == <<0, 1>>
One == <<1, 1>>
FromInt(i) == <<i, 1>>

RatAdd(a, b) ==
    LET l == (a[2] \div Gcd(a[2], b[2])) * b[2]
    IN  Rat(a[1] * (l \div a[2]) + b[1] * (l \div b[2]), l)
RatNeg(a) == <<-a[1], a[2]>>
RatSub(a, b) == RatAdd(a, RatNeg(b))
RatMul(a, b) == Rat(a[1] * b[1], a[2] * b[2])
\* b # 0
RatDiv(a, b) == Rat(a[1] * b[2], a[2] * b[1])
RatGt0(a) == a[1] > 0
RatIsZero(a) == a[1] = 0

RECURSIVE RatSum(_)
RatSum(s) == IF s = <<>> THEN Zero ELSE RatAdd(Head(s), RatSum(Tail(s)))

----------------------------------------------------------------------------
(* The stored records and the session (models.py, games/catan_app.py) *)

\* catan_app.py:26-31 and an empty database.
InitApp ==
    /\ players = <<>>
    /\ games = <<>>
    /\ game_players = <<>>
    /\ rolls = <<>>
    /\ final_scores = <<>>
    /\ catan_active_game_id = NoGame
    /\ catan_turn_idx = 0
    /\ catan_roll_counter = 0

NoCall == [fn |-> "none"]

PlayerIds == Range(players)
GameIds == {games[i].id : i \in DOMAIN games}

\* select(GamePlayer).where(game_id == g).order_by(turn_order): the rows of the
\* game in ascending turn_order.  SQL leaves the order of rows with equal
\* turn_order open, so this is the set of the lists the query may return.
_load_game_players(game_id) ==
    LET rows == {game_players[i] : i \in {j \in DOMAIN game_players :
                                          game_players[j].game_id = game_id}}
    IN  {gps \in Perms(rows) : IsByTurnOrder(gps)}

\* sorted([(pid, orders[pid]) for pid in selected_ids], key=order): Python's
\* sort is stable, so equal orders keep the order of selection.
RECURSIVE SortedByOrder(_, _, _)
SortedByOrder(selected_ids, orders, o) ==
    IF o > Len(selected_ids) THEN <<>>
    ELSE LET HasOrder(pid) == orders[pid] = o
         IN  SelectSeq(selected_ids, HasOrder) \o SortedByOrder(selected_ids, orders, o + 1)

\* "Add to Library" with a non-blank name.
AddPlayer ==
    /\ Len(players) < MaxPlayers
    /\ players' = Append(players, Len(players) + 1)
    /\ UNCHANGED <<games, game_players, rolls, final_scores, session_vars, call>>

\* "Start Game": selected_ids is the multiselect's list, orders the number
\* inputs (each 1..len(selected_ids); equal values only raise a warning).
StartGame(selected_ids, orders) ==
    /\ Len(games) < MaxGames
    /\ selected_ids # <<>>
    /\ LET g == Len(games) + 1
           ordered == SortedByOrder(selected_ids, orders, 1)
           gp(i) == [game_id |-> g, player_id |-> ordered[i],
                     turn_order |-> orders[ordered[i]]]
       IN  /\ games' = Append(games, [id |-> g, ended |-> FALSE])
           /\ game_players' = game_players \o [i \in 1..Len(ordered) |-> gp(i)]
           /\ catan_active_game_id' = g
    /\ catan_turn_idx' = 0
    /\ catan_roll_counter' = 0
    /\ UNCHANGED <<players, rolls, final_scores, call>>

\* Mutant: the turn does not pass to the next player.
RecordRoll_same_turn(pressed_total) ==
    /\ catan_active_game_id # NoGame
    /\ Len(rolls) < MaxRolls
    /\ \E gps \in _load_game_players(catan_active_game_id) :
          /\ gps # <<>>
          /\ LET current_gp == gps[(catan_turn_idx % Len(gps)) + 1]
             IN  rolls' = Append(rolls, [game_id |-> catan_active_game_id,
                                         player_id |-> current_gp.player_id,
                                         total |-> pressed_total,
                                         idx_in_game |-> catan_roll_counter])
          /\ catan_roll_counter' = catan_roll_counter + 1
          /\ catan_turn_idx' = catan_turn_idx
    /\ UNCHANGED <<players, games, game_players, final_scores,
                   catan_active_game_id, call>>

\* A roll button is pressed on the Active Game page.
RecordRoll(pressed_total) ==
    /\ catan_active_game_id # NoGame
    /\ Len(rolls) < MaxRolls
    /\ \E gps \in _load_game_players(catan_active_game_id) :
          /\ gps # <<>>
          /\ LET current_gp == gps[(catan_turn_idx % Len(gps)) + 1]
             IN  rolls' = Append(rolls, [game_id |-> catan_active_game_id,
                                         player_id |-> current_gp.player_id,
                                         total |-> pressed_total,
                                         idx_in_game |-> catan_roll_counter])
          /\ catan_roll_counter' = catan_roll_counter + 1
          /\ catan_turn_idx' = (catan_turn_idx + 1) % Len(gps)
    /\ UNCHANGED <<players, games, game_players, final_scores,
                   catan_active_game_id, call>>

\* "Save Scores & End Game".
EndGame(scores) ==
    /\ catan_active_game_id # NoGame
    /\ \E gps \in _load_game_players(catan_active_game_id) :
          /\ gps # <<>>
          /\ final_scores' = final_scores \o
                [i \in 1..Len(gps) |-> [game_id |-> catan_active_game_id,
                                        player_id |-> gps[i].player_id,
                                        score |-> scores[gps[i].player_id]]]
    /\ games' = [i \in DOMAIN games |->
                    IF games[i].id = catan_active_game_id
                    THEN [games[i] EXCEPT !.ended = TRUE] ELSE games[i]]
    /\ catan_active_game_id' = NoGame
    /\ catan_turn_idx' = 0
    /\ catan_roll_counter' = 0
    /\ UNCHANGED <<players, game_players, rolls, call>>

----------------------------------------------------------------------------
(* Distribution tabulation (utils_stats.py).  A DataFrame with the columns     *)
(* total, count is the list of its rows.                                   *)

NoPlayer == 0       \* player_id=None

\* collections.Counter(totals).get(t, 0)
Counter(totals, t) == Cardinality({i \in DOMAIN totals : totals[i] = t})

\* [r.total for r in rs]
TotalsOf(rs) == [i \in DOMAIN rs |-> rs[i].total]

\* Mutant: the game filter is lost, every stored roll is counted.
rolls_distribution_df_all_games(game_id) ==
    LET totals == TotalsOf(rolls)
    IN  [i \in 1..(MaxTotal - MinTotal + 1) |->
            [total |-> MinTotal + i - 1, count |-> Counter(totals, MinTotal + i - 1)]]

rolls_distribution_df(game_id) ==
    LET InGame(r) == r.game_id = game_id
        totals == TotalsOf(SelectSeq(rolls, InGame))
    IN  [i \in 1..(MaxTotal - MinTotal + 1) |->
            [total |-> MinTotal + i - 1, count |-> Counter(totals, MinTotal + i - 1)]]

\* Mutant: the zero rows are dropped here as in the lifetime per-player table.
per_player_distribution_single_df_tidy(game_id, player_id) ==
    LET Mine(r) == r.game_id = game_id /\ r.player_id = player_id
        totals == TotalsOf(SelectSeq(rolls, Mine))
        rows == [i \in 1..(MaxTotal - MinTotal + 1) |->
                    [total |-> MinTotal + i - 1, count |-> Counter(totals, MinTotal + i - 1)]]
        Positive(row) == row.count > 0
    IN  SelectSeq(rows, Positive)

per_player_distribution_single_df(game_id, player_id) ==
    LET Mine(r) == r.game_id = game_id /\ r.player_id = player_id
        totals == TotalsOf(SelectSeq(rolls, Mine))
    IN  [i \in 1..(MaxTotal - MinTotal + 1) |->
            [total |-> MinTotal + i - 1, count |-> Counter(totals, MinTotal + i - 1)]]

lifetime_rolls_distribution_df ==
    LET totals == TotalsOf(rolls)
    IN  [i \in 1..(MaxTotal - MinTotal + 1) |->
            [total |-> MinTotal + i - 1, count |-> Counter(totals, MinTotal + i - 1)]]

\* Mutant: the zero rows are kept.
lifetime_per_player_distribution_df_keep_zeros(player_id) ==
    IF player_id = NoPlayer \/ player_id \notin PlayerIds THEN <<>>
    ELSE LET Mine(r) == r.player_id = player_id
             totals == TotalsOf(SelectSeq(rolls, Mine))
         IN  [i \in 1..(MaxTotal - MinTotal + 1) |->
                 [player |-> player_id, total |-> MinTotal + i - 1,
                  count |-> Counter(totals, MinTotal + i - 1)]]

\* Rows player, total, count; the rows with count 0 are dropped
\* ("Clean out zeros to keep charts tidy").
lifetime_per_player_distribution_df(player_id) ==
    IF player_id = NoPlayer \/ player_id \notin PlayerIds THEN <<>>
    ELSE LET Mine(r) == r.player_id = player_id
             totals == TotalsOf(SelectSeq(rolls, Mine))
             rows == [i \in 1..(MaxTotal - MinTotal + 1) |->
                         [player |-> player_id, total |-> MinTotal + i - 1,
                          count |-> Counter(totals, MinTotal + i - 1)]]
             Positive(row) == row.count > 0
         IN  SelectSeq(rows, Positive)

\* pp_life_df.rename(columns={"player": "_"}).drop(columns=["_"])
DropPlayerColumn(df) == [i \in DOMAIN df |-> [total |-> df[i].total, count |-> df[i].count]]

\* df["count"].sum()
CountSum(df) == SumSeq([i \in DOMAIN df |-> df[i].count])

----------------------------------------------------------------------------
(* Theoretical 2d6 distribution *)

SumWeights == 36
weights == (2 :> 1) @@ (3 :> 2) @@ (4 :> 3) @@ (5 :> 4) @@ (6 :> 5) @@ (7 :> 6) @@
           (8 :> 5) @@ (9 :> 4) @@ (10 :> 3) @@ (11 :> 2) @@ (12 :> 1)

\* Mutant: a negative total_count is not clamped.
expected_2d6_df_unclamped(total_count) ==
    [i \in 1..(MaxTotal - MinTotal + 1) |->
        LET t == MinTotal + i - 1
            p == Rat(weights[t], SumWeights)
        IN  [total |-> t, expected_prob |-> p,
             expected_count |-> RatMul(p, FromInt(total_count))]]

expected_2d6_df(total_count) ==
    [i \in 1..(MaxTotal - MinTotal + 1) |->
        LET t == MinTotal + i - 1
            p == Rat(weights[t], SumWeights)
        IN  [total |-> t, expected_prob |-> p,
             expected_count |-> RatMul(p, FromInt(Max(total_count, 0)))]]

----------------------------------------------------------------------------
(* Chi-square right tail.  A p-value is a record: the literal 1.0, NaN, or  *)
(* the value of one of the two tail functions at (x, df), kept as a term.  *)

POne == [kind |-> "1.0", x |-> Zero, df |-> 0]
PNaN == [kind |-> "nan", x |-> Zero, df |-> 0]
\* scipy.stats.chi2.sf(x, df) with df > 0 and x > 0
PSf(x, df) == [kind |-> "chi2.sf", x |-> x, df |-> df]
\* 0.5 * erfc(z / sqrt(2)), z the Wilson-Hilferty transform of (x, df), df > 0.
\* z is finite for every x >= 0, and below 1.0 the doubles are 1.1e-16
\* apart: at x = 0, df = 10 the value is 0.99999999997, not 1.0.
PWilsonHilferty(x, df) == [kind |-> "wilson-hilferty", x |-> x, df |-> df]
\* In the fallback (x / df) ** (1 / 3) is a complex number for x < 0, and
\* math.erfc then raises TypeError out of _chi2_sf.
PRaises == [kind |-> "raises", x |-> Zero, df |-> 0]

\* Mutant: the fallback does not look at df.
_chi2_sf_unguarded(x, df, scipy) ==
    IF scipy
    THEN IF df <= 0 THEN PNaN
         ELSE IF ~RatGt0(x) THEN POne
         ELSE PSf(x, df)
    ELSE IF x[1] < 0 /\ df > 0 THEN PRaises
         ELSE PWilsonHilferty(x, df)

\* `scipy` says whether `from scipy.stats import chi2` succeeds in the
\* environment.  scipy's chi2.sf is nan for df <= 0 and 1.0 for x <= 0.
_chi2_sf(x, df, scipy) ==
    IF scipy
    THEN IF df <= 0 THEN PNaN
         ELSE IF ~RatGt0(x) THEN POne
         ELSE PSf(x, df)
    ELSE IF df <= 0 THEN PNaN
         ELSE IF x[1] < 0 THEN PRaises
         ELSE PWilsonHilferty(x, df)

----------------------------------------------------------------------------
(* Chi-square goodness of fit against 2d6 *)

GofBins == 11

\* Mutant: the probabilities of 6 and 8 are swapped with those of 5 and 9.
probs_swapped == <<Rat(1, 36), Rat(2, 36), Rat(3, 36), Rat(5, 36), Rat(4, 36), Rat(6, 36),
                   Rat(4, 36), Rat(5, 36), Rat(3, 36), Rat(2, 36), Rat(1, 36)>>

probs == <<Rat(1, 36), Rat(2, 36), Rat(3, 36), Rat(4, 36), Rat(5, 36), Rat(6, 36),
           Rat(5, 36), Rat(4, 36), Rat(3, 36), Rat(2, 36), Rat(1, 36)>>

\* {int(t): int(c) for t, c in zip(total, count)}.get(t, default): the last
\* row of a total wins.
ByTotalGet(df_counts, t, default) ==
    LET at == {i \in DOMAIN df_counts : df_counts[i].total = t}
    IN  IF at = {} THEN default
        ELSE df_counts[CHOOSE i \in at : \A j \in at : j <= i].count

\* Mutant: a missing total counts as 1.
GofCounts_missing_as_one(df_counts) ==
    [i \in 1..(MaxTotal - MinTotal + 1) |-> ByTotalGet(df_counts, MinTotal + i - 1, 1)]

\* counts = [by_total.get(t, 0) for t in range(2, 13)]
GofCounts(df_counts) ==
    [i \in 1..(MaxTotal - MinTotal + 1) |-> ByTotalGet(df_counts, MinTotal + i - 1, 0)]

\* expected = [n * p for p in probs]
GofExpectedOf(n) == [i \in DOMAIN probs |-> RatMul(FromInt(n), probs[i])]
GofExpected(df_counts) == GofExpectedOf(SumSeq(GofCounts(df_counts)))

\* sum((o - e) ** 2 / e for o, e in zip(counts, expected) if e > 0)
GofChi2Of(counts, expected) ==
    RatSum([i \in DOMAIN counts |->
               LET e == expected[i]
                   d == RatSub(FromInt(counts[i]), e)
               IN  IF RatGt0(e) THEN RatDiv(RatMul(d, d), e) ELSE Zero])
GofChi2(df_counts) ==
    LET counts == GofCounts(df_counts)
    IN  GofChi2Of(counts, GofExpectedOf(SumSeq(counts)))

\* Mutant: only n = 0 returns early.
chisq_gof_2d6_from_df_zero_only(df_counts, scipy) ==
    LET counts == GofCounts(df_counts)
        n == SumSeq(counts)
    IN  IF n = 0
        THEN [chi2 |-> Zero, dof |-> 10, p |-> POne, n |-> 0]
        ELSE LET expected == GofExpectedOf(n)
                 chi2 == GofChi2Of(counts, expected)
                 dof == GofBins - 1
             IN  [chi2 |-> chi2, dof |-> dof, p |-> _chi2_sf(chi2, dof, scipy), n |-> n]

chisq_gof_2d6_from_df(df_counts, scipy) ==
    LET counts == GofCounts(df_counts)
        n == SumSeq(counts)
    IN  IF n <= 0
        THEN [chi2 |-> Zero, dof |-> 10, p |-> POne, n |-> 0]
        ELSE LET expected == GofExpectedOf(n)
                 chi2 == GofChi2Of(counts, expected)
                 dof == GofBins - 1
             IN  [chi2 |-> chi2, dof |-> dof, p |-> _chi2_sf(chi2, dof, scipy), n |-> n]

\* The list `expected` of chisq_gof_2d6_from_df, built only when n > 0.
GofExpectedShown(df_counts) ==
    IF SumSeq(GofCounts(df_counts)) <= 0 THEN <<>> ELSE GofExpected(df_counts)

\* The calls of _chi2_sf that chisq_gof_2d6_from_df makes, as <<x, df>>.
GofTailCalls(df_counts) ==
    IF SumSeq(GofCounts(df_counts)) <= 0 THEN <<>>
    ELSE << <<GofChi2(df_counts), GofBins - 1>> >>

----------------------------------------------------------------------------
(* Players x totals contingency table and the test of independence.  The   *)
(* table is a DataFrame [index, columns, values]: values[i][j] is the cell *)
(* of row label i and column label j.                                      *)

\* The elements of a finite set of integers in ascending order.
RECURSIVE SortedSeq(_)
SortedSeq(S) ==
    IF S = {} THEN <<>>
    ELSE LET m == CHOOSE x \in S : \A y \in S : x <= y
         IN  <<m>> \o SortedSeq(S \ {m})

TotalsList == [i \in 1..(MaxTotal - MinTotal + 1) |-> MinTotal + i - 1]

\* Mutant: the cells are not added up (aggfunc="max"): a cell is 1 when the
\* player has rolled the total at all.
PivotTable_max(rs) ==
    LET pids == {rs[i].player_id : i \in DOMAIN rs}
        tots == {rs[i].total : i \in DOMAIN rs}
    IN  [index |-> SortedSeq(pids), columns |-> SortedSeq(tots),
         values |-> [pid \in pids |-> [t \in tots |->
             IF \E i \in DOMAIN rs : rs[i].player_id = pid /\ rs[i].total = t THEN 1 ELSE 0]]]

\* df.assign(count=1).pivot_table(index="player_id", columns="total",
\*     values="count", aggfunc="sum", fill_value=0)
PivotTable(rs) ==
    LET pids == {rs[i].player_id : i \in DOMAIN rs}
        tots == {rs[i].total : i \in DOMAIN rs}
    IN  [index |-> SortedSeq(pids), columns |-> SortedSeq(tots),
         values |-> [pid \in pids |-> [t \in tots |->
             Cardinality({i \in DOMAIN rs : rs[i].player_id = pid /\ rs[i].total = t})]]]

\* table.reindex(columns=cols, fill_value=fill)
Reindex(table, cols, fill) ==
    [index |-> table.index, columns |-> cols,
     values |-> [i \in Range(table.index) |-> [j \in Range(cols) |->
         IF j \in Range(table.columns) THEN table.values[i][j] ELSE fill]]]

\* Mutant: the columns are not reindexed to 2..12.
players_totals_contingency_no_reindex ==
    IF rolls = <<>>
    THEN [index |-> <<>>, columns |-> TotalsList, values |-> <<>>]
    ELSE PivotTable(rolls)

\* The first component of the pair the function returns (the table).
players_totals_contingency ==
    IF rolls = <<>>
    THEN [index |-> <<>>, columns |-> TotalsList, values |-> <<>>]
    ELSE Reindex(PivotTable(rolls), TotalsList, 0)

RowSum(table, i) == SumSeq([k \in DOMAIN table.columns |-> table.values[i][table.columns[k]]])
ColSum(table, j) == SumSeq([k \in DOMAIN table.index |-> table.values[table.index[k]][j]])
\* table.values.sum()
GrandTotal(table) == SumSeq([k \in DOMAIN table.index |-> RowSum(table, table.index[k])])
\* table.empty
IsEmpty(table) == table.index = <<>> \/ table.columns = <<>>

\* row_sums = obs.sum(axis=1); col_sums = obs.sum(axis=0); n = row_sums.sum()
RowSums(table) == [i \in Range(table.index) |-> RowSum(table, i)]
ColSums(table) == [j \in Range(table.columns) |-> ColSum(table, j)]

\* row_sums.loc[i] * col_sums.loc[j] / n if n > 0 else 0.0
ExpectedCell(row_sum, col_sum, n) == IF n > 0 THEN Rat(row_sum * col_sum, n) ELSE Zero

\* The DataFrame `expected`, as the function of its cells.
IndepExpected(table) ==
    LET row_sums == RowSums(table)
        col_sums == ColSums(table)
        n == GrandTotal(table)
    IN  [i \in Range(table.index) |-> [j \in Range(table.columns) |->
            ExpectedCell(row_sums[i], col_sums[j], n)]]

\* The cells that expected.replace(0, pd.NA) takes out of the sum.
IndepSkipped(table) ==
    LET expected == IndepExpected(table)
    IN  {c \in Range(table.index) \X Range(table.columns) : RatIsZero(expected[c[1]][c[2]])}

\* ((obs - expected) ** 2 / expected.replace(0, pd.NA)).sum().sum(): the sum
\* of each column (the NA cells left out), then the sum of those.
IndepChi2(table) ==
    LET expected == IndepExpected(table)
        term(i, j) ==
            LET e == expected[i][j]
                d == RatSub(FromInt(table.values[i][j]), e)
            IN  IF RatIsZero(e) THEN Zero ELSE RatDiv(RatMul(d, d), e)
        column(j) == RatSum([k \in DOMAIN table.index |-> term(table.index[k], j)])
    IN  RatSum([k \in DOMAIN table.columns |-> column(table.columns[k])])

\* Mutant: the p-value always comes from _chi2_sf.
chisq_independence_players_no_dof_guard(table, scipy) ==
    IF IsEmpty(table) \/ GrandTotal(table) = 0
    THEN [chi2 |-> Zero, dof |-> 0, p |-> POne, n |-> 0, r |-> 0]
    ELSE LET r == Len(table.index)
             c == Len(table.columns)
             dof == (r - 1) * (c - 1)
         IN  [chi2 |-> IndepChi2(table), dof |-> dof,
              p |-> _chi2_sf(IndepChi2(table), dof, scipy),
              n |-> GrandTotal(table), r |-> r]

\* Mutant: only a table without rows or columns returns early.
chisq_independence_players_empty_only(table, scipy) ==
    IF IsEmpty(table)
    THEN [chi2 |-> Zero, dof |-> 0, p |-> POne, n |-> 0, r |-> 0]
    ELSE LET r == Len(table.index)
             c == Len(table.columns)
             dof == (r - 1) * (c - 1)
         IN  [chi2 |-> IndepChi2(table), dof |-> dof,
              p |-> IF dof > 0 THEN _chi2_sf(IndepChi2(table), dof, scipy) ELSE POne,
              n |-> GrandTotal(table), r |-> r]

chisq_independence_players(table, scipy) ==
    IF IsEmpty(table) \/ GrandTotal(table) = 0
    THEN [chi2 |-> Zero, dof |-> 0, p |-> POne, n |-> 0, r |-> 0]
    ELSE LET r == Len(table.index)
             c == Len(table.columns)
             dof == (r - 1) * (c - 1)
         IN  [chi2 |-> IndepChi2(table), dof |-> dof,
              p |-> IF dof > 0 THEN _chi2_sf(IndepChi2(table), dof, scipy) ELSE POne,
              n |-> GrandTotal(table), r |-> r]

\* The calls of _chi2_sf that chisq_independence_players makes, as <<x, df>>.
IndepTailCalls(table) ==
    IF IsEmpty(table) \/ GrandTotal(table) = 0 THEN <<>>
    ELSE LET dof == (Len(table.index) - 1) * (Len(table.columns) - 1)
         IN  IF dof > 0 THEN << <<IndepChi2(table), dof>> >> ELSE <<>>

----------------------------------------------------------------------------
(* Cramer's V.  The float chi2 is [nan, v]: NaN, or the rational v.  The   *)
(* result is the literal 0.0, NaN, the square root of a positive rational  *)
(* kept as a term, or an exception.                                        *)

Min(a, b) == IF a < b THEN a ELSE b

Float(v) == [nan |-> FALSE, v |-> v]
FloatNaN == [nan |-> TRUE, v |-> Zero]

VZero == [kind |-> "0.0", arg |-> Zero]
VNaN == [kind |-> "nan", arg |-> Zero]
VRaises == [kind |-> "raises", arg |-> Zero]
VSqrt(q) == [kind |-> "sqrt", arg |-> q]

\* math.sqrt(chi2 / denom) for denom other than 0: sqrt(nan) is nan,
\* sqrt(0.0) is 0.0 and a negative argument raises ValueError.
MathSqrtOfQuotient(chi2, denom) ==
    IF chi2.nan THEN VNaN
    ELSE LET q == RatDiv(chi2.v, FromInt(denom))
         IN  IF RatIsZero(q) THEN VZero
             ELSE IF RatGt0(q) THEN VSqrt(q)
             ELSE VRaises

\* Mutant: the quotient is taken whatever the denominator (division by 0
\* raises ZeroDivisionError).
cramers_v_no_denom_guard(chi2, n, r, c) ==
    IF n <= 0 THEN VZero
    ELSE LET denom == n * Min(r - 1, c - 1)
         IN  IF denom = 0 THEN VRaises ELSE MathSqrtOfQuotient(chi2, denom)

cramers_v(chi2, n, r, c) ==
    IF n <= 0 THEN VZero
    ELSE LET denom == n * Min(r - 1, c - 1)
         IN  IF denom > 0 THEN MathSqrtOfQuotient(chi2, denom) ELSE VZero

----------------------------------------------------------------------------
(* Exact two-sided binomial test.                                          *)
(*                                                                         *)
(* The float p is [q, d]: the rational q itself (d = 0), or a double that  *)
(* lies below (d = -1) or above (d = 1) q by no more than 1e-14, as        *)
(* 0.3333333333333333 lies below 1/3; d # 0 only for 0 < q < 1.            *)
(*                                                                         *)
(* A log-pmf is [pmf, tilt]: pmf is the probability at q, of which the     *)
(* float is the logarithm (-inf for pmf 0), and tilt orders the log-pmfs   *)
(* of outcomes that have the same probability at q, since                  *)
(* log pmf_p(x) - log pmf_p(k) = (x - k) * (logit(p) - logit(q)) for them. *)
(* For n and the denominators of q within the bounds that difference is    *)
(* below 1e-12, and the log-pmfs of outcomes whose probabilities at q      *)
(* differ are much further apart than 1e-12.                               *)
(*                                                                         *)
(* The returned float is [nan, v, r]: NaN, or the rational v when r = 0,   *)
(* or a double just below (r = -1) or just above (r = 1) v: the sum of     *)
(* rounded terms math.exp(lx) is off the exact sum in either direction     *)
(* (n = 10, p = 0.5, k = 5 adds up to 0.9999999999999982 and n = 3,        *)
(* p = 0.5, k = 1 to 1.0000000000000007).                                  *)

RECURSIVE IntPow(_, _)
IntPow(b, e) == IF e <= 0 THEN 1 ELSE b * IntPow(b, e - 1)

\* exp(lgamma(n + 1) - lgamma(k + 1) - lgamma(n - k + 1)), 0 <= k <= n
RECURSIVE Choose(_, _)
Choose(n, k) == IF k <= 0 THEN 1 ELSE (Choose(n, k - 1) * (n - k + 1)) \div k

RatLeq(a, b) == ~RatGt0(RatSub(a, b))

_log_binom_pmf(k, n, p) ==
    IF p.q[1] <= 0
    THEN [pmf |-> IF k = 0 THEN One ELSE Zero, tilt |-> 0]
    ELSE IF p.q[1] >= p.q[2]
    THEN [pmf |-> IF k = n THEN One ELSE Zero, tilt |-> 0]
    ELSE [pmf |-> Rat(Choose(n, k) * IntPow(p.q[1], k) * IntPow(p.q[2] - p.q[1], n - k),
                      IntPow(p.q[2], n)),
          tilt |-> k * p.d]

\* lx <= log_pk, the comparison without the tolerance.
LogLeq(lx, log_pk) ==
    IF lx.pmf = log_pk.pmf THEN lx.tilt <= log_pk.tilt ELSE RatLeq(lx.pmf, log_pk.pmf)

\* Mutant: no numeric wiggle room.
LogLeqTol_strict(lx, log_pk) == LogLeq(lx, log_pk)

\* lx <= log_pk + 1e-12
LogLeqTol(lx, log_pk) == RatLeq(lx.pmf, log_pk.pmf)

\* The loop over x in range(0, n + 1), from x on: what it adds to total.
RECURSIVE BinomTotal(_, _, _, _)
BinomTotal(x, k, n, p) ==
    IF x > n THEN Zero
    ELSE LET lx == _log_binom_pmf(x, n, p)
             rest == BinomTotal(x + 1, k, n, p)
         IN  IF LogLeqTol(lx, _log_binom_pmf(k, n, p)) THEN RatAdd(lx.pmf, rest) ELSE rest

BNaN == [nan |-> TRUE, v |-> Zero, r |-> 0]
BFloat(v, r) == [nan |-> FALSE, v |-> v, r |-> r]

\* The terms are exactly 0.0 or 1.0 when p <= 0 or p >= 1; otherwise they are
\* rounded and the sum is off by `round`.
BinomRounding(p, round) == IF p.q[1] <= 0 \/ p.q[1] >= p.q[2] THEN 0 ELSE round

\* Mutant: total is returned as it is.
binom_two_sided_pvalue_unclamped(k, n, p, round) ==
    IF n <= 0 THEN BNaN
    ELSE BFloat(BinomTotal(0, k, n, p), BinomRounding(p, round))

binom_two_sided_pvalue(k, n, p, round) ==
    IF n <= 0 THEN BNaN
    ELSE LET total == BinomTotal(0, k, n, p)
             r == BinomRounding(p, round)
         IN  \* min(1.0, total)
             IF RatGt0(RatSub(total, One)) \/ (total = One /\ r > 0)
             THEN BFloat(One, 0)
             ELSE BFloat(total, r)

----------------------------------------------------------------------------
(* What render() hands to the statistical tests (games/catan_app.py) *)

\* Active Game page: _show_gof_line(dist_df, ...) and, for the player chosen
\* in the select box, _show_gof_line(pp_one_df, ...).
ActiveGameGofInputs ==
    IF catan_active_game_id = NoGame \/ _load_game_players(catan_active_game_id) = {<<>>}
    THEN {}
    ELSE LET gps == CHOOSE l \in _load_game_players(catan_active_game_id) : TRUE
         IN  {rolls_distribution_df(catan_active_game_id)} \cup
             {per_player_distribution_single_df(catan_active_game_id, gps[i].player_id)
                 : i \in DOMAIN gps}

\* Historical Data page, lifetime chart: shown unless no roll is stored.
LifetimeGofInputs ==
    IF CountSum(lifetime_rolls_distribution_df) = 0 THEN {}
    ELSE {lifetime_rolls_distribution_df}

\* Historical Data page, lifetime per-player chart of the selected player:
\* tmp is pp_life_df without its player column.
LifetimePlayerGofInputs ==
    {DropPlayerColumn(lifetime_per_player_distribution_df(selected_pid)) :
        selected_pid \in {pid \in PlayerIds :
            LET pp_life_df == lifetime_per_player_distribution_df(pid)
            IN  ~(pp_life_df = <<>> \/ CountSum(pp_life_df) = 0)}}

\* Historical Data page, "Individual Games": one GOF line per game.
IndividualGamesGofInputs == {rolls_distribution_df(g) : g \in GameIds}

\* Historical Data page, players vs totals.
IndependenceInputs ==
    LET table == players_totals_contingency
    IN  IF IsEmpty(table) \/ GrandTotal(table) = 0 \/ Len(table.index) < 2 THEN {}
        ELSE {table}

\* _low_power_note and _show_gof_line (games/catan_app.py).  The caption is
\* kept as the sample size and the note it ends with; the texts of the
\* statistic, the dof and the p-value in front of them are not modelled.
LowPowerThreshold == 180
\* The note, with its dash and its chi-square sign written in ASCII.
LowSampleNote == " - low sample; chi2 may be unreliable"

\* Mutant: a sample of exactly 180 is still flagged.
_low_power_note_inclusive(n) == IF n <= LowPowerThreshold THEN LowSampleNote ELSE ""

_low_power_note(n) == IF n < LowPowerThreshold THEN LowSampleNote ELSE ""

_show_gof_line(df_counts, scipy) ==
    LET gof == chisq_gof_2d6_from_df(df_counts, scipy)
    IN  [gof |-> gof, n |-> gof.n, note |-> _low_power_note(gof.n)]

Selections == UNION {Perms(S) : S \in (SUBSET PlayerIds) \ {{}}}

Init == InitApp /\ call = NoCall

Next ==
    \/ AddPlayer
    \/ \E selected_ids \in Selections :
          \E orders \in [Range(selected_ids) -> 1..Len(selected_ids)] :
             StartGame(selected_ids, orders)
    \/ \E pressed_total \in Buttons : RecordRoll(pressed_total)
    \/ \E scores \in [PlayerIds -> 0..MaxScore] : EndGame(scores)

Spec == Init /\ [][Next]_vars

----------------------------------------------------------------------------
(* SpecStats: each behaviour applies one pure function to one input drawn   *)
(* from a bounded set.                                                     *)

GofRows == [total : Buttons, count : (0 - MaxNeg)..MaxCount]
SmallTables == UNION {[1..k -> GofRows] : k \in 0..MaxRows}
\* The count table of 36 * m rolls spread exactly as the 2d6 weights.
ProportionalTable(m) == [i \in DOMAIN TotalsList |->
    [total |-> TotalsList[i], count |-> m * weights[TotalsList[i]]]]
GofInputs == SmallTables \cup {ProportionalTable(m) : m \in 1..MaxMult}

\* Contingency tables with rows 1..r: the cells of the totals 2 and 7 range
\* over 0..MaxCell; the columns are those two totals, the first of them
\* alone, or all of 2..12 (the other cells 0).
TableTotals == {ButtonOrder[1], ButtonOrder[2]}
IndepTables ==
    UNION {UNION {
        {[index |-> [k \in 1..r |-> k], columns |-> cols,
          values |-> [i \in 1..r |-> [j \in Range(cols) |->
                         IF j \in TableTotals THEN cells[i][j] ELSE 0]]]
         : cols \in {SortedSeq(TableTotals), <<ButtonOrder[1]>>, TotalsList}}
        : cells \in [1..r -> [TableTotals -> 0..MaxCell]]}
      : r \in 0..MaxTableRows}

CallExpected(total_count) ==
    /\ call = NoCall
    /\ call' = [fn |-> "expected_2d6_df", arg |-> total_count,
                result |-> expected_2d6_df(total_count)]
    /\ UNCHANGED <<db_vars, session_vars>>

CallGof(df_counts, scipy) ==
    /\ call = NoCall
    /\ call' = [fn |-> "chisq_gof_2d6_from_df", arg |-> df_counts, scipy |-> scipy,
                result |-> chisq_gof_2d6_from_df(df_counts, scipy),
                expected |-> GofExpectedShown(df_counts),
                tail_calls |-> GofTailCalls(df_counts)]
    /\ UNCHANGED <<db_vars, session_vars>>

CallIndependence(table, scipy) ==
    /\ call = NoCall
    /\ call' = [fn |-> "chisq_independence_players", arg |-> table, scipy |-> scipy,
                result |-> chisq_independence_players(table, scipy),
                tail_calls |-> IndepTailCalls(table)]
    /\ UNCHANGED <<db_vars, session_vars>>

\* Count tables around a multiple of 36 rolls: the proportional table of 36 * m
\* rolls with d added to the count of total 7.
NearProportionalTable(m, d) == [i \in DOMAIN TotalsList |->
    [total |-> TotalsList[i],
     count |-> m * weights[TotalsList[i]] + (IF TotalsList[i] = 7 THEN d ELSE 0)]]
ShowInputs == {<<>>} \cup {NearProportionalTable(m, d) : m \in 1..MaxMult, d \in {-1, 0, 1}}

CallShowGofLine(df_counts, scipy) ==
    /\ call = NoCall
    /\ call' = [fn |-> "_show_gof_line", arg |-> df_counts, scipy |-> scipy,
                result |-> _show_gof_line(df_counts, scipy)]
    /\ UNCHANGED <<db_vars, session_vars>>

\* Statistics given to _chi2_sf: below 0, 0, and above 0.
TailXs == {Rat(0 - 1, 1), Zero, Rat(1, 2), Rat(7, 2)}

CallChi2Sf(x, df, scipy) ==
    /\ call = NoCall
    /\ call' = [fn |-> "_chi2_sf", x |-> x, df |-> df, scipy |-> scipy,
                result |-> _chi2_sf(x, df, scipy)]
    /\ UNCHANGED <<db_vars, session_vars>>

\* Statistics given to cramers_v: those of TailXs and NaN.
CramersChi2s == {Float(x) : x \in TailXs} \cup {FloatNaN}

CallCramersV(chi2, n, r, c) ==
    /\ call = NoCall
    /\ call' = [fn |-> "cramers_v", chi2 |-> chi2, n |-> n, r |-> r, c |-> c,
                result |-> cramers_v(chi2, n, r, c)]
    /\ UNCHANGED <<db_vars, session_vars>>

\* Probabilities given to binom_two_sided_pvalue.
Probs ==
    {pr \in {[q |-> Rat(i, den), d |-> d] :
                 i \in 0..MaxDen, den \in 1..MaxDen, d \in {0 - 1, 0, 1}} :
        /\ pr.q[1] <= pr.q[2]
        /\ pr.d # 0 => (0 < pr.q[1] /\ pr.q[1] < pr.q[2])}

CallBinom(k, n, p, round) ==
    /\ call = NoCall
    /\ call' = [fn |-> "binom_two_sided_pvalue", k |-> k, n |-> n, p |-> p, round |-> round,
                result |-> binom_two_sided_pvalue(k, n, p, round)]
    /\ UNCHANGED <<db_vars, session_vars>>

NextStats ==
    \/ \E total_count \in (0 - MaxN)..MaxN : CallExpected(total_count)
    \/ \E df_counts \in GofInputs : \E scipy \in BOOLEAN : CallGof(df_counts, scipy)
    \/ \E table \in IndepTables : \E scipy \in BOOLEAN : CallIndependence(table, scipy)
    \/ \E df_counts \in ShowInputs : \E scipy \in BOOLEAN : CallShowGofLine(df_counts, scipy)
    \/ \E x \in TailXs : \E df \in (0 - MaxDf)..MaxDf : \E scipy \in BOOLEAN :
          CallChi2Sf(x, df, scipy)
    \/ \E chi2 \in CramersChi2s : \E n \in (0 - MaxNeg)..MaxCount :
          \E r, c \in 0..MaxShape : CallCramersV(chi2, n, r, c)
    \/ \E n \in 0..MaxTrials : \E k \in 0..n : \E p \in Probs : \E round \in {0 - 1, 0, 1} :
          CallBinom(k, n, p, round)

SpecStats == Init /\ [][NextStats]_vars

----------------------------------------------------------------------------
(* SpecCalls: the page as in Spec, and at any point the functions of       *)
(* utils_stats are invoked on the stored records; the exploration of a     *)
(* behaviour ends with that invocation.                                    *)

\* The ids a caller may pass, None included.
AnyGameId == GameIds \cup {NoGame}
AnyPlayerId == PlayerIds \cup {NoPlayer}

\* What the functions of utils_stats that query the session return, and what
\* the goodness-of-fit test returns where the Historical Data page calls it on
\* the lifetime table.
Statistics(scipy) ==
    [rolls_distribution_df |-> [g \in GameIds |-> rolls_distribution_df(g)],
     per_player_distribution_single_df |->
        [g \in GameIds |-> [pid \in PlayerIds |-> per_player_distribution_single_df(g, pid)]],
     lifetime_rolls_distribution_df |-> lifetime_rolls_distribution_df,
     lifetime_per_player_distribution_df |->
        [pid \in AnyPlayerId |-> lifetime_per_player_distribution_df(pid)],
     players_totals_contingency |-> players_totals_contingency,
     chisq_gof_2d6_from_df |->
        {chisq_gof_2d6_from_df(df_counts, scipy) : df_counts \in LifetimeGofInputs}]

\* Mutant: the invocation resets the turn index of the session.
CallStatistics_resetting_turn(scipy) ==
    /\ call = NoCall
    /\ call' = [fn |-> "statistics", scipy |-> scipy, result |-> Statistics(scipy)]
    /\ catan_turn_idx' = 0
    /\ UNCHANGED <<db_vars, catan_active_game_id, catan_roll_counter>>

\* The functions only run select statements on the session they are given.
CallStatistics(scipy) ==
    /\ call = NoCall
    /\ call' = [fn |-> "statistics", scipy |-> scipy, result |-> Statistics(scipy)]
    /\ UNCHANGED <<db_vars, session_vars>>

NextCalls ==
    \/ call = NoCall /\ Next
    \/ \E scipy \in BOOLEAN : CallStatistics(scipy)

SpecCalls == Init /\ [][NextCalls]_vars

----------------------------------------------------------------------------
(* Properties *)

\* A table with exactly the rows of the totals 2, 3, ..., 12, in that order.
HasAllTotals(df) == [i \in DOMAIN df |-> df[i].total] = <<2, 3, 4, 5, 6, 7, 8, 9, 10, 11, 12>>
NonNegative(df) == \A i \in DOMAIN df : df[i].count >= 0
AllZero(df) == \A i \in DOMAIN df : df[i].count = 0

\* Any id a caller may pass: a stored one or one that matches no row.

\* C1: whatever rolls have been recorded, the count tables of
\* rolls_distribution_df, per_player_distribution_single_df and
\* lifetime_rolls_distribution_df have exactly the rows 2..12 in ascending
\* order, no negative count, and counts that add up to the number of stored
\* rolls of the game, of the player in the game, and of all games.
C1_CountTables ==
    /\ \A g \in AnyGameId :
          LET df == rolls_distribution_df(g)
              InGame(r) == r.game_id = g
          IN  HasAllTotals(df) /\ NonNegative(df) /\ CountSum(df) = Len(SelectSeq(rolls, InGame))
    /\ \A g \in AnyGameId : \A pid \in AnyPlayerId :
          LET df == per_player_distribution_single_df(g, pid)
              Mine(r) == r.game_id = g /\ r.player_id = pid
          IN  HasAllTotals(df) /\ NonNegative(df) /\ CountSum(df) = Len(SelectSeq(rolls, Mine))
    /\ LET df == lifetime_rolls_distribution_df
       IN  HasAllTotals(df) /\ NonNegative(df) /\ CountSum(df) = Len(rolls)

\* Three rolls: two players have rolled in one game and a roll is stored in
\* another game, so the three scopes differ.
C1_Witness ==
    \E g \in GameIds : \E pid \in PlayerIds :
        /\ 0 < CountSum(per_player_distribution_single_df(g, pid))
        /\ CountSum(per_player_distribution_single_df(g, pid)) < CountSum(rolls_distribution_df(g))
        /\ CountSum(rolls_distribution_df(g)) < CountSum(lifetime_rolls_distribution_df)

\* The table with a row of count 0 added for every total of 2..12 it lacks.
ZeroFill(df) ==
    LET missing == SortedSeq({t \in Totals : \A i \in DOMAIN df : df[i].total # t})
    IN  df \o [i \in DOMAIN missing |-> [total |-> missing[i], count |-> 0]]

\* C2 as stated: every table handed to chisq_gof_2d6_from_df has its rows for
\* all 11 totals, the zero ones included, and every table handed to
\* chisq_independence_players has all 11 columns.
C2_NoZeroRowDroppedBeforeTest ==
    /\ \A df \in ActiveGameGofInputs \cup LifetimeGofInputs \cup
                 LifetimePlayerGofInputs \cup IndividualGamesGofInputs : HasAllTotals(df)
    /\ \A table \in IndependenceInputs : table.columns = TotalsList

\* C2 amended: only lifetime_per_player_distribution_df drops its zero rows.
\* Its table does reach chisq_gof_2d6_from_df without them (it holds exactly
\* the totals the player rolled), and the test fills them back in: its result
\* is the result on the zero-filled table.  Every other table handed to a
\* test has all 11 totals.
C2_OnlyLifetimePlayerDropsZeros ==
    /\ \A df \in ActiveGameGofInputs \cup LifetimeGofInputs \cup IndividualGamesGofInputs :
          HasAllTotals(df)
    /\ \A table \in IndependenceInputs : table.columns = TotalsList
    /\ \A pid \in PlayerIds :
          LET df == lifetime_per_player_distribution_df(pid)
              Mine(r) == r.player_id = pid
          IN  /\ \A i \in DOMAIN df : df[i].count > 0
              /\ {df[i].total : i \in DOMAIN df} = {rolls[k].total : k \in {j \in DOMAIN rolls : Mine(rolls[j])}}
              /\ CountSum(df) = Len(SelectSeq(rolls, Mine))
    /\ \A df \in LifetimePlayerGofInputs : \A scipy \in BOOLEAN :
          /\ Len(df) < 11
          /\ chisq_gof_2d6_from_df(df, scipy) = chisq_gof_2d6_from_df(ZeroFill(df), scipy)

\* Two players have rolled: a lifetime per-player table short of rows goes to
\* the goodness-of-fit test and the contingency table to the independence test.
C2_Witness ==
    /\ \E df \in LifetimePlayerGofInputs : Len(df) = 2
    /\ IndependenceInputs # {}
    /\ ActiveGameGofInputs # {}

\* C3 as stated: in each of the four variants, no roll in scope gives the 11
\* rows 2..12 with count 0.
C3_EmptyScopeAllZero ==
    /\ \A g \in AnyGameId :
          LET InGame(r) == r.game_id = g
              df == rolls_distribution_df(g)
          IN  Len(SelectSeq(rolls, InGame)) = 0 => HasAllTotals(df) /\ AllZero(df)
    /\ \A g \in AnyGameId : \A pid \in AnyPlayerId :
          LET Mine(r) == r.game_id = g /\ r.player_id = pid
              df == per_player_distribution_single_df(g, pid)
          IN  Len(SelectSeq(rolls, Mine)) = 0 => HasAllTotals(df) /\ AllZero(df)
    /\ rolls = <<>> =>
          HasAllTotals(lifetime_rolls_distribution_df) /\ AllZero(lifetime_rolls_distribution_df)
    /\ \A pid \in PlayerIds :
          LET Mine(r) == r.player_id = pid
              df == lifetime_per_player_distribution_df(pid)
          IN  Len(SelectSeq(rolls, Mine)) = 0 => HasAllTotals(df) /\ AllZero(df)

\* C3 amended: with no roll in scope the whole-game, single-player-in-game and
\* whole-history tables are the 11 rows 2..12 with count 0; the single-player
\* lifetime table is the table without any row.
C3_EmptyScope ==
    /\ \A g \in AnyGameId :
          LET InGame(r) == r.game_id = g
              df == rolls_distribution_df(g)
          IN  Len(SelectSeq(rolls, InGame)) = 0 => HasAllTotals(df) /\ AllZero(df)
    /\ \A g \in AnyGameId : \A pid \in AnyPlayerId :
          LET Mine(r) == r.game_id = g /\ r.player_id = pid
              df == per_player_distribution_single_df(g, pid)
          IN  Len(SelectSeq(rolls, Mine)) = 0 => HasAllTotals(df) /\ AllZero(df)
    /\ rolls = <<>> =>
          HasAllTotals(lifetime_rolls_distribution_df) /\ AllZero(lifetime_rolls_distribution_df)
    /\ \A pid \in AnyPlayerId :
          LET Mine(r) == r.player_id = pid
          IN  Len(SelectSeq(rolls, Mine)) = 0 => lifetime_per_player_distribution_df(pid) = <<>>

\* Rolls are stored, yet a game, a player of a game and a player of the
\* library have none.
C3_Witness ==
    /\ rolls # <<>>
    /\ \E g \in GameIds : AllZero(rolls_distribution_df(g))
    /\ \E g \in GameIds : \E pid \in PlayerIds :
          /\ \E i \in DOMAIN game_players :
                game_players[i].game_id = g /\ game_players[i].player_id = pid
          /\ AllZero(per_player_distribution_single_df(g, pid))
          /\ ~AllZero(rolls_distribution_df(g))
    /\ \E pid \in PlayerIds : lifetime_per_player_distribution_df(pid) = <<>>

\* The rows of a table in ascending order of total (totals distinct).
SortedRows(df) ==
    LET ts == SortedSeq({df[i].total : i \in DOMAIN df})
    IN  [k \in DOMAIN ts |-> df[CHOOSE i \in DOMAIN df : df[i].total = ts[k]]]

\* At most one row per total.
IsCountTableShape(df) == \A i, j \in DOMAIN df : df[i].total = df[j].total => i = j

\* A count table: at most one row per total of 2..12, no negative count.
IsCountTable(df) ==
    /\ \A i, j \in DOMAIN df : df[i].total = df[j].total => i = j
    /\ \A i \in DOMAIN df : df[i].total \in Totals /\ df[i].count >= 0

IsGofCall == call.fn = "chisq_gof_2d6_from_df"

\* C4: on a count table over a subset of the totals 2..12,
\* chisq_gof_2d6_from_df returns what it returns on the table zero-filled to
\* all 11 totals, with n the sum of the supplied counts and dof 10.
C4_MissingTotalsAreZero ==
    (IsGofCall /\ IsCountTable(call.arg)) =>
        /\ HasAllTotals(SortedRows(ZeroFill(call.arg)))
        /\ call.result = chisq_gof_2d6_from_df(ZeroFill(call.arg), call.scipy)
        /\ call.result.n = CountSum(call.arg)
        /\ call.result.dof = 10

\* One row, of a positive count: ten totals are missing.
C4_Witness ==
    /\ IsGofCall /\ IsCountTable(call.arg)
    /\ Len(call.arg) = 1 /\ call.result.n > 0 /\ ~RatIsZero(call.result.chi2)

IsExpectedCall == call.fn = "expected_2d6_df"

\* C5: for every integer N, expected_2d6_df(N) gives total t of 2..12 the
\* probability weight(t)/36, the weights being 1,2,3,4,5,6,5,4,3,2,1; the
\* probabilities add up to 1 and the expected counts to N when N >= 0 and to
\* 0 when N < 0.
C5_ExpectedTable ==
    IsExpectedCall =>
        LET df == call.result
            w == <<1, 2, 3, 4, 5, 6, 5, 4, 3, 2, 1>>
        IN  /\ Len(df) = 11
            /\ \A i \in 1..11 : df[i].total = i + 1 /\ df[i].expected_prob = Rat(w[i], 36)
            /\ RatSum([i \in DOMAIN df |-> df[i].expected_prob]) = One
            /\ RatSum([i \in DOMAIN df |-> df[i].expected_count]) =
                  IF call.arg >= 0 THEN FromInt(call.arg) ELSE Zero

\* A negative N.
C5_Witness == IsExpectedCall /\ call.arg < 0

\* The call is on the table m * weights of some m >= 1.
IsProportionalCall ==
    /\ IsGofCall
    /\ \E m \in 1..(MaxMult + 1) : call.arg = ProportionalTable(m)

\* The statistic is 0 and the expected counts are the observed ones.
ProportionalFits ==
    /\ call.result.chi2 = Zero
    /\ call.result.n = CountSum(call.arg)
    /\ \A i \in DOMAIN call.arg : call.expected[i] = FromInt(call.arg[i].count)

\* C6 as stated: on counts m * weight(t), m >= 1, chisq_gof_2d6_from_df returns
\* statistic 0 and p-value 1.0, and its expected counts are the observed ones.
C6_ProportionalSample ==
    IsProportionalCall => ProportionalFits /\ call.result.p = POne

\* C6 amended: on counts m * weight(t), m >= 1, the statistic is 0 and the
\* expected counts are the observed ones; the p-value is 1.0 when scipy's
\* chi2.sf is used and the Wilson-Hilferty value at x = 0, df = 10
\* (0.99999999997) when it is not.
C6_ProportionalSampleByPath ==
    IsProportionalCall =>
        /\ ProportionalFits
        /\ call.result.p = IF call.scipy THEN POne ELSE PWilsonHilferty(Zero, 10)

\* 72 rolls or more, without scipy.
C6_Witness == IsProportionalCall /\ call.result.n >= 72 /\ ~call.scipy

\* C7: whenever the counts of the totals 2..12 add up to 0 or less, the empty
\* table included, chisq_gof_2d6_from_df returns (0.0, 10, 1.0, 0) and does
\* not call _chi2_sf.
C7_VacuousGof ==
    (IsGofCall /\ SumSeq([i \in 1..11 |-> ByTotalGet(call.arg, i + 1, 0)]) <= 0) =>
        /\ call.result = [chi2 |-> Zero, dof |-> 10, p |-> POne, n |-> 0]
        /\ call.tail_calls = <<>>

\* The counts add up to less than 0.
C7_Witness == IsGofCall /\ CountSum(call.arg) < 0 /\ IsCountTableShape(call.arg)

\* The players and the totals that have a stored roll.
PlayersWithRolls == {rolls[i].player_id : i \in DOMAIN rolls}
TotalsRolled == {rolls[i].total : i \in DOMAIN rolls}

\* C8 as stated: in the table players_totals_contingency builds from the
\* stored rolls no row and no column has sum 0, and no cell has expected
\* count 0: the skip-zero-expected guard has nothing to skip.
C8_GuardNeverExercised ==
    LET table == players_totals_contingency
    IN  /\ \A i \in Range(table.index) : RowSum(table, i) # 0
        /\ (table.index # <<>>) => \A j \in Range(table.columns) : ColSum(table, j) # 0
        /\ IndepSkipped(table) = {}

\* C8 amended: no row of the table has sum 0, but the columns are always all
\* of 2..12, so every total nobody has rolled is a column of sum 0; the cells
\* with expected count 0 are exactly the cells of those columns, and the
\* guard skips them whenever some total of 2..12 has not been rolled.
C8_GuardSkipsUnrolledTotals ==
    LET table == players_totals_contingency
    IN  /\ Range(table.columns) = 2..12
        /\ \A i \in Range(table.index) : RowSum(table, i) > 0
        /\ (table.index # <<>>) =>
              \A j \in 2..12 : (ColSum(table, j) = 0) <=> (j \notin TotalsRolled)
        /\ IndepSkipped(table) = Range(table.index) \X ((2..12) \ TotalsRolled)

\* Two players have rolled two different totals: nine columns are skipped.
C8_Witness ==
    /\ Cardinality(PlayersWithRolls) = 2
    /\ Cardinality(TotalsRolled) = 2
    /\ Cardinality(IndepSkipped(players_totals_contingency)) = 18

\* C9: whatever rolls have been recorded, the table of
\* players_totals_contingency has one row per player with at least one roll
\* and no other row, the columns 2..12, in each cell the number of rolls of
\* that total by that player, and row sums and column sums that both add up
\* to the number of stored rolls.
C9_ContingencyTable ==
    LET table == players_totals_contingency
    IN  /\ Range(table.index) = PlayersWithRolls
        /\ Len(table.index) = Cardinality(PlayersWithRolls)
        /\ table.columns = <<2, 3, 4, 5, 6, 7, 8, 9, 10, 11, 12>>
        /\ \A pid \in PlayersWithRolls :
              /\ RowSum(table, pid) > 0
              /\ \A t \in 2..12 :
                    LET Cell(r) == r.player_id = pid /\ r.total = t
                    IN  table.values[pid][t] = Len(SelectSeq(rolls, Cell))
        /\ SumSeq([k \in DOMAIN table.index |-> RowSum(table, table.index[k])]) = Len(rolls)
        /\ SumSeq([k \in DOMAIN table.columns |-> ColSum(table, table.columns[k])]) = Len(rolls)

\* Three rolls by two players, one of whom rolled the same total twice.
C9_Witness ==
    LET table == players_totals_contingency
    IN  /\ Len(rolls) = 3
        /\ Len(table.index) = 2
        /\ \E pid \in PlayersWithRolls : \E t \in 2..12 : table.values[pid][t] = 2

IsIndepCall == call.fn = "chisq_independence_players"

\* C10: on a table with rows and a grand total other than 0,
\* chisq_independence_players returns dof = (rows - 1) * (cols - 1); whenever
\* the dof it returns is 0 or less the p-value is 1.0 and _chi2_sf is not
\* called; a table of one row with a positive grand total gives dof 0 and
\* p-value 1.0 whatever its cells, and a result is returned.
C10_DofAndVacuousP ==
    IsIndepCall =>
        LET table == call.arg
            rows == Len(table.index)
            cols == Len(table.columns)
        IN  /\ (rows > 0 /\ cols > 0 /\ GrandTotal(table) # 0) =>
                  call.result.dof = (rows - 1) * (cols - 1)
            /\ call.result.dof <= 0 =>
                  call.result.p = POne /\ call.tail_calls = <<>>
            /\ call.result.dof > 0 =>
                  call.tail_calls = << <<call.result.chi2, call.result.dof>> >>
            /\ (rows = 1 /\ GrandTotal(table) > 0) =>
                  call.result.dof = 0 /\ call.result.p = POne /\ call.result.r = 1

\* One row, the columns 2..12, a positive grand total.
C10_Witness ==
    /\ IsIndepCall
    /\ Len(call.arg.index) = 1 /\ Len(call.arg.columns) = 11
    /\ GrandTotal(call.arg) = 2

\* The tuple (0.0, 0, 1.0, 0, 0).
VacuousIndependence == [chi2 |-> Zero, dof |-> 0, p |-> POne, n |-> 0, r |-> 0]

\* C11: on a table with no rows, or with a grand total of 0, whatever its
\* shape, chisq_independence_players returns (0.0, 0, 1.0, 0, 0) on either
\* tail path and calls nothing.
C11_VacuousIndependence ==
    IsIndepCall =>
        ((Len(call.arg.index) = 0 \/ GrandTotal(call.arg) = 0) =>
            call.result = VacuousIndependence /\ call.tail_calls = <<>>)

\* Two players' rows over the columns 2..12, every cell 0.
C11_Witness ==
    /\ IsIndepCall
    /\ Len(call.arg.index) = 2 /\ Len(call.arg.columns) = 11
    /\ GrandTotal(call.arg) = 0
    /\ call.result = VacuousIndependence

IsShowCall == call.fn = "_show_gof_line"

\* C12: the caption _show_gof_line writes for a sample of n rolls ends with
\* the low-sample note exactly when n < 180 and with nothing when n >= 180,
\* and the statistic, dof, p-value and n it shows are those that
\* chisq_gof_2d6_from_df returns for the same table.
C12_LowPowerAdvisory ==
    IsShowCall =>
        LET shown == call.result
        IN  /\ shown.gof = chisq_gof_2d6_from_df(call.arg, call.scipy)
            /\ shown.n = Max(CountSum(call.arg), 0)
            /\ shown.n < 180 => shown.note = LowSampleNote
            /\ shown.n >= 180 => shown.note = ""

\* A sample of exactly 180 rolls, shown without the note.
C12_Witness == IsShowCall /\ call.result.n = 180 /\ call.result.note = ""

IsChi2SfCall == call.fn = "_chi2_sf"

\* C13: for every df <= 0 and every x, _chi2_sf returns NaN, with scipy and
\* on the Wilson-Hilferty fallback alike; for df > 0 it never returns NaN.
C13_NaNForBadDf ==
    IsChi2SfCall => (call.df <= 0 <=> call.result = PNaN)

\* df = 0 on the fallback path, where x / df would otherwise be evaluated.
C13_Witness ==
    IsChi2SfCall /\ call.df = 0 /\ ~call.scipy /\ call.result = PNaN

IsCramersCall == call.fn = "cramers_v"

\* C14: whenever n <= 0 or min(r - 1, c - 1) <= 0, cramers_v returns the
\* literal 0.0 for every chi2 (negative and NaN included): it neither raises
\* nor returns NaN.
C14_CramersVZero ==
    IsCramersCall =>
        ((call.n <= 0 \/ Min(call.r - 1, call.c - 1) <= 0) => call.result = VZero)

\* A single row (r = 1) with n > 0 and a positive statistic.
C14_Witness ==
    /\ IsCramersCall
    /\ call.n > 0 /\ call.r = 1 /\ call.c = MaxShape
    /\ ~call.chi2.nan /\ RatGt0(call.chi2.v)
    /\ call.result = VZero

IsBinomCall == call.fn = "binom_two_sided_pvalue" /\ call.n >= 1

\* The sum of pmf(x) over the outcomes x of S, each counted once.
SumPmf(S, n, p) ==
    LET xs == SortedSeq(S)
    IN  RatSum([i \in DOMAIN xs |-> _log_binom_pmf(xs[i], n, p).pmf])

\* The outcomes x with pmf(x) <= pmf(k) at p itself.
AtMostAsProbable(k, n, p) ==
    {x \in 0..n : LogLeq(_log_binom_pmf(x, n, p), _log_binom_pmf(k, n, p))}

\* The outcomes x with log pmf(x) <= log pmf(k) + 1e-12: those with
\* pmf(x) <= pmf(k) and those more probable than k by a factor below e^1e-12,
\* which here are the outcomes as probable as k at the rational next to p.
WithinTolerance(k, n, p) ==
    {x \in 0..n : RatLeq(_log_binom_pmf(x, n, p).pmf, _log_binom_pmf(k, n, p).pmf)}

Half == [q |-> Rat(1, 2), d |-> 0]

\* C15 as stated: up to the rounding of the floating-point sum, the result
\* is the sum of pmf(x) over exactly the x in 0..n with pmf(x) <= pmf(k); it
\* is 1.0 when k is a most probable outcome and 2 * 0.5^n for p = 0.5 and k
\* equal to 0 or n.
C15_SumOfAtMostAsProbable ==
    IsBinomCall =>
        LET k == call.k
            n == call.n
            p == call.p
        IN  /\ ~call.result.nan
            /\ call.result.v = SumPmf(AtMostAsProbable(k, n, p), n, p)
            /\ AtMostAsProbable(k, n, p) = 0..n => call.result.v = One
            /\ (p = Half /\ k \in {0, n}) => call.result.v = Rat(2, IntPow(2, n))

\* C15 amended: up to the rounding of the floating-point sum, the result is
\* the sum of pmf(x) over the x in 0..n with log pmf(x) <= log pmf(k) + 1e-12,
\* each counted once and k among them; that is the set of the x with
\* pmf(x) <= pmf(k) when p is the rational itself, and in general it also
\* holds the outcomes that are more probable than k by a factor below e^1e-12.
\* The result is 1.0 when k is a most probable outcome and 2 * 0.5^n for
\* p = 0.5 and k equal to 0 or n.
C15_SumWithinTolerance ==
    IsBinomCall =>
        LET k == call.k
            n == call.n
            p == call.p
        IN  /\ ~call.result.nan
            /\ k \in WithinTolerance(k, n, p)
            /\ AtMostAsProbable(k, n, p) \subseteq WithinTolerance(k, n, p)
            /\ call.result.v = SumPmf(WithinTolerance(k, n, p), n, p)
            /\ p.d = 0 => call.result.v = SumPmf(AtMostAsProbable(k, n, p), n, p)
            /\ AtMostAsProbable(k, n, p) = 0..n => call.result.v = One
            /\ (p = Half /\ k \in {0, n}) => call.result.v = Rat(2, IntPow(2, n))

\* n = 2, k = 1 and p the double below 1/3: pmf(0) is above pmf(1) by less
\* than the tolerance, outcome 0 is added and the sum is 1 and not 5/9.
C15_Witness ==
    /\ IsBinomCall
    /\ call.n = 2 /\ call.k = 1 /\ call.p = [q |-> Rat(1, 3), d |-> 0 - 1]
    /\ AtMostAsProbable(1, 2, call.p) = {1, 2}
    /\ call.result.v = One

\* A float in [0, 1].
InUnitInterval(f) ==
    /\ ~f.nan
    /\ RatLeq(Zero, f.v) /\ RatLeq(f.v, One)
    /\ f.v = Zero => f.r >= 0
    /\ f.v = One => f.r <= 0

\* C16: for n >= 1, 0 <= k <= n and 0 <= p <= 1, p = 0 and p = 1 included,
\* binom_two_sided_pvalue returns a float in [0, 1], whichever way the
\* floating-point sum is rounded.
C16_InUnitInterval ==
    IsBinomCall => InUnitInterval(call.result)

\* The rounded sum is above 1 (as for n = 3, p = 0.5, k = 1) and 1.0 is
\* returned.
C16_Witness ==
    /\ IsBinomCall
    /\ call.n = 3 /\ call.k = 1 /\ call.p = Half /\ call.round = 1
    /\ call.result = BFloat(One, 0)

IsStatisticsCall == call.fn = "statistics"

GamePlayersOf(g) == LET InGame(gp) == gp.game_id = g IN SelectSeq(game_players, InGame)
RollsOf(g) == LET InGame(r) == r.game_id = g IN SelectSeq(rolls, InGame)

\* C18 as stated: no two GamePlayer records of one game have the same
\* turn_order.
C18_UniqueTurnOrders ==
    \A g \in GameIds :
        LET gps == GamePlayersOf(g)
        IN  \A i, j \in DOMAIN gps : gps[i].turn_order = gps[j].turn_order => i = j

\* C19: the k-th roll of a game (k from 0) is stored with idx_in_game = k and
\* belongs to the player at position k mod m of the game's m players as the
\* query lists them in ascending turn_order; a press adds exactly one Roll
\* at the end, adds 1 to the roll counter and moves the turn index to
\* (previous + 1) mod m.
C19_RoundRobin ==
    /\ [](\A g \in GameIds :
            LET rs == RollsOf(g)
                m == Len(GamePlayersOf(g))
            IN  \A i \in DOMAIN rs :
                   /\ rs[i].idx_in_game = i - 1
                   /\ \E gps \in _load_game_players(g) :
                         rs[i].player_id = gps[((i - 1) % m) + 1].player_id)
    /\ [][rolls' # rolls =>
            LET m == Len(GamePlayersOf(catan_active_game_id))
            IN  /\ Len(rolls') = Len(rolls) + 1
                /\ SubSeq(rolls', 1, Len(rolls)) = rolls
                /\ rolls'[Len(rolls')].game_id = catan_active_game_id
                /\ catan_roll_counter' = catan_roll_counter + 1
                /\ catan_turn_idx' = (catan_turn_idx + 1) % m
                /\ UNCHANGED <<players, games, game_players, final_scores,
                               catan_active_game_id>>]_vars

\* Three rolls in a game of two players with the turn orders 1 and 2: the
\* first and the third are the first player's, the second the other's.
C19_Witness ==
    \E g \in GameIds :
        LET rs == RollsOf(g)
            gps == GamePlayersOf(g)
        IN  /\ Len(gps) = 2 /\ gps[1].turn_order = 1 /\ gps[2].turn_order = 2
            /\ Len(rs) = 3
            /\ rs[1].player_id = gps[1].player_id
            /\ rs[2].player_id = gps[2].player_id
            /\ rs[3].player_id = gps[1].player_id
            /\ catan_turn_idx = 1 /\ catan_roll_counter = 3

====
